---- MODULE Spec2Model ----
(***************************************************************************)
(* Model of src/app.py: the line parser parse_data_file and the part of    *)
(* the upload_file handler that calls it.                                  *)
(*                                                                         *)
(* A Python str is a sequence of one-character strings.  Python offsets    *)
(* are 0-based and TLA+ sequences 1-based; Slice and SliceFrom do the      *)
(* conversion, every index named after a Python variable keeps Python's    *)
(* 0-based value, and -1 is "not found" as in str.rfind.                   *)
(***************************************************************************)
EXTENDS Integers, Sequences, FiniteSets, TLC

VARIABLES pc, content, lines, idx, records, response, uploads, movements, blobs

vars == <<pc, content, lines, idx, records, response, uploads, movements, blobs>>

(***************************************************************************)
(* Characters and string primitives                                        *)
(***************************************************************************)
Digits == {"0", "1", "2", "3", "4", "5", "6", "7", "8", "9"}

\* the characters str.strip() and \S treat as blank; the input files below use
\* the space only
Whitespace == {" "}

NL == "\n"

IsDigit(c) == c \in Digits

SetMin(S) == CHOOSE x \in S : \A y \in S : x <= y

SetMax(S) == CHOOSE x \in S : \A y \in S : x >= y

\* s[a:b] for 0 <= a, 0 <= b
Slice(s, a, b) == SubSeq(s, a + 1, IF b < Len(s) THEN b ELSE Len(s))

\* s[a:] for 0 <= a
SliceFrom(s, a) == SubSeq(s, a + 1, Len(s))

\* s.strip()
Strip(s) ==
    LET keep == {i \in DOMAIN s : s[i] \notin Whitespace}
    IN  IF keep = {} THEN <<>> ELSE SubSeq(s, SetMin(keep), SetMax(keep))

\* s.startswith(p)
StartsWith(s, p) == Len(s) >= Len(p) /\ SubSeq(s, 1, Len(p)) = p

\* s.rfind(t): 0-based index of the last occurrence, -1 when there is none
RFind(s, t) ==
    LET at == {i \in 0..(Len(s) - Len(t)) : SubSeq(s, i + 1, i + Len(t)) = t}
    IN  IF at = {} THEN -1 ELSE SetMax(at)

\* s.replace(old, new): left to right, non-overlapping
RECURSIVE Replace(_, _, _)
Replace(s, old, new) ==
    IF Len(s) < Len(old) THEN s
    ELSE IF SubSeq(s, 1, Len(old)) = old
         THEN new \o Replace(SubSeq(s, Len(old) + 1, Len(s)), old, new)
         ELSE <<Head(s)>> \o Replace(Tail(s), old, new)

\* file_content.split('\n')
RECURSIVE Split(_)
Split(s) ==
    LET at == {i \in DOMAIN s : s[i] = NL}
    IN  IF at = {} THEN <<s>>
        ELSE <<SubSeq(s, 1, SetMin(at) - 1)>> \o Split(SubSeq(s, SetMin(at) + 1, Len(s)))

(***************************************************************************)
(* Literals and offsets of parse_data_file                                 *)
(***************************************************************************)
Sentinel == <<"S", "B", "I", "Z", "A", "I", "Z", "0">>

NA == <<"N", "/", "A">>

NoneValue == <<"None">>

IV == <<"I", "V">>

VV == <<"V", "V">>

IFR == <<"I", "F", "R">>

VFR == <<"V", "F", "R">>

MinLen == 50

DateStart == 9

MatriculaStart == 15

TipoStart == 22

DestinoStart == 27

(***************************************************************************)
(* Field extraction of one admitted line                                   *)
(***************************************************************************)
SkipLineUntrimmed(line) == Len(line) <= MinLen \/ StartsWith(line, Sentinel)

\* the admission test of the loop
SkipLine(line) == Len(Strip(line)) <= MinLen \/ StartsWith(line, Sentinel)

\* re.search(r'\S+$', line.strip()), default 'N/A'
Responsavel(line) ==
    LET t  == Strip(line)
        ws == {i \in DOMAIN t : t[i] \in Whitespace}
    IN  IF t = <<>> THEN NA
        ELSE SubSeq(t, (IF ws = {} THEN 0 ELSE SetMax(ws)) + 1, Len(t))

Matricula(line) == Strip(Slice(line, MatriculaStart, TipoStart))

TipoAeronave(line) == Strip(Slice(line, TipoStart, DestinoStart))

\* re.search(r'(IV|VV)', line).start(), -1 when there is no match
RuleIndexLast(line) ==
    LET at == {i \in 0..(Len(line) - 2) : SubSeq(line, i + 1, i + 2) \in {IV, VV}}
    IN  IF at = {} THEN -1 ELSE SetMax(at)

RuleIndex(line) ==
    LET at == {i \in 0..(Len(line) - 2) : SubSeq(line, i + 1, i + 2) \in {IV, VV}}
    IN  IF at = {} THEN -1 ELSE SetMin(at)

RuleToken(line) == SubSeq(line, RuleIndex(line) + 1, RuleIndex(line) + 2)

RegraVoo(line) ==
    IF RuleIndex(line) < 0 THEN NA
    ELSE Replace(Replace(RuleToken(line), IV, IFR), VV, VFR)

\* re.search(r'(\d{2})', s): the first two adjacent digits, '' when none
SearchTwoDigits(s) ==
    LET at == {i \in 1..(Len(s) - 1) : IsDigit(s[i]) /\ IsDigit(s[i + 1])}
    IN  IF at = {} THEN <<>> ELSE SubSeq(s, SetMin(at), SetMin(at) + 1)

PistaAnywhere(line) == SearchTwoDigits(line)

Pista(line) ==
    IF RuleIndex(line) < 0 THEN <<>>
    ELSE SearchTwoDigits(SliceFrom(line, RuleIndex(line) + 2))

StringBeforeRule(line) == Slice(line, 0, RuleIndex(line))

\* re.findall(r'\d{4}', s): scan left to right, resume after each match
RECURSIVE FindAllFourDigits(_)
FindAllFourDigits(s) ==
    IF Len(s) < 4 THEN <<>>
    ELSE IF \A i \in 1..4 : IsDigit(s[i])
         THEN <<SubSeq(s, 1, 4)>> \o FindAllFourDigits(SubSeq(s, 5, Len(s)))
         ELSE FindAllFourDigits(Tail(s))

TimeMatches(line) ==
    IF RuleIndex(line) < 0 THEN <<>> ELSE FindAllFourDigits(StringBeforeRule(line))

HasTime(line) == TimeMatches(line) # <<>>

HorarioStr(line) == TimeMatches(line)[Len(TimeMatches(line))]

TimeIndex(line) == RFind(StringBeforeRule(line), HorarioStr(line))

Destino(line) ==
    IF ~HasTime(line) THEN NA
    ELSE LET d == Strip(Slice(line, DestinoStart, TimeIndex(line)))
         IN  IF d = <<>> THEN NA ELSE d

(***************************************************************************)
(* datetime.strptime(s, '%d%m%y%H%M') and datetime.isoformat()             *)
(*                                                                         *)
(* strptime compiles the format to one regular expression, matched at the  *)
(* start of s with backtracking:                                           *)
(*   %d  3[0-1]|[1-2]\d|0[1-9]|[1-9]| [1-9]     %m  1[0-2]|0[1-9]|[1-9]    *)
(*   %y  \d\d      %H  2[0-3]|[0-1]\d|\d        %M  [0-5]\d|\d             *)
(* and raises ValueError when nothing matches, when the match stops before *)
(* the end of s, or when the day does not exist in the month.              *)
(***************************************************************************)
DigitVal(c) ==
    CASE c = "0" -> 0 [] c = "1" -> 1 [] c = "2" -> 2 [] c = "3" -> 3
      [] c = "4" -> 4 [] c = "5" -> 5 [] c = "6" -> 6 [] c = "7" -> 7
      [] c = "8" -> 8 [] c = "9" -> 9

DigitChar(n) == <<"0", "1", "2", "3", "4", "5", "6", "7", "8", "9">>[n + 1]

NonZero == Digits \ {"0"}

MatchDay(t) ==
    \/ Len(t) = 2 /\ t[1] = "3" /\ t[2] \in {"0", "1"}
    \/ Len(t) = 2 /\ t[1] \in {"1", "2"} /\ IsDigit(t[2])
    \/ Len(t) = 2 /\ t[1] = "0" /\ t[2] \in NonZero
    \/ Len(t) = 1 /\ t[1] \in NonZero
    \/ Len(t) = 2 /\ t[1] = " " /\ t[2] \in NonZero

MatchMonth(t) ==
    \/ Len(t) = 2 /\ t[1] = "1" /\ t[2] \in {"0", "1", "2"}
    \/ Len(t) = 2 /\ t[1] = "0" /\ t[2] \in NonZero
    \/ Len(t) = 1 /\ t[1] \in NonZero

MatchYear(t) == Len(t) = 2 /\ IsDigit(t[1]) /\ IsDigit(t[2])

MatchHour(t) ==
    \/ Len(t) = 2 /\ t[1] = "2" /\ t[2] \in {"0", "1", "2", "3"}
    \/ Len(t) = 2 /\ t[1] \in {"0", "1"} /\ IsDigit(t[2])
    \/ Len(t) = 1 /\ IsDigit(t[1])

MatchMinute(t) ==
    \/ Len(t) = 2 /\ t[1] \in {"0", "1", "2", "3", "4", "5"} /\ IsDigit(t[2])
    \/ Len(t) = 1 /\ IsDigit(t[1])

\* int(t) of a matched group; int() ignores the leading blank of ' 5'
IntOf(t) ==
    IF Len(t) = 1 THEN DigitVal(t[1])
    ELSE IF t[1] = " " THEN DigitVal(t[2])
    ELSE 10 * DigitVal(t[1]) + DigitVal(t[2])

IsLeap(y) == y % 4 = 0 /\ (y % 100 # 0 \/ y % 400 = 0)

DaysInMonth(y, m) ==
    IF m = 2 THEN (IF IsLeap(y) THEN 29 ELSE 28)
    ELSE IF m \in {4, 6, 9, 11} THEN 30 ELSE 31

\* %y: 00..68 are 2000..2068, 69..99 are 1969..1999
FullYear(yy) == IF yy <= 68 THEN 2000 + yy ELSE 1900 + yy

NoDate == [ok |-> FALSE, year |-> 0, month |-> 0, day |-> 0, hour |-> 0, minute |-> 0]

\* the groups of s for widths w = <<d, m, H, M>> (%y is always two characters)
Groups(s, w) ==
    [d  |-> SubSeq(s, 1, w[1]),
     m  |-> SubSeq(s, w[1] + 1, w[1] + w[2]),
     y  |-> SubSeq(s, w[1] + w[2] + 1, w[1] + w[2] + 2),
     H  |-> SubSeq(s, w[1] + w[2] + 3, w[1] + w[2] + 2 + w[3]),
     M  |-> SubSeq(s, w[1] + w[2] + 3 + w[3], w[1] + w[2] + 2 + w[3] + w[4]),
     end |-> w[1] + w[2] + 2 + w[3] + w[4]]

\* the wider alternative of a group comes first in the pattern
Prefers(w, v) ==
    \E i \in 1..4 : w[i] > v[i] /\ \A j \in 1..(i - 1) : w[j] = v[j]

Strptime(s) ==
    LET fits == {w \in [1..4 -> {1, 2}] :
                    /\ w[1] + w[2] + 2 + w[3] + w[4] <= Len(s)
                    /\ MatchDay(Groups(s, w).d)
                    /\ MatchMonth(Groups(s, w).m)
                    /\ MatchYear(Groups(s, w).y)
                    /\ MatchHour(Groups(s, w).H)
                    /\ MatchMinute(Groups(s, w).M)}
    IN  IF fits = {} THEN NoDate
        ELSE LET w  == CHOOSE x \in fits : \A v \in fits \ {x} : Prefers(x, v)
                 g  == Groups(s, w)
                 yr == FullYear(IntOf(g.y))
             IN  IF g.end # Len(s) THEN NoDate
                 ELSE IF IntOf(g.d) > DaysInMonth(yr, IntOf(g.m)) THEN NoDate
                 ELSE [ok |-> TRUE, year |-> yr, month |-> IntOf(g.m),
                       day |-> IntOf(g.d), hour |-> IntOf(g.H), minute |-> IntOf(g.M)]

Pad2(n) == <<DigitChar(n \div 10), DigitChar(n % 10)>>

\* dt.isoformat() of a datetime with second 0 and microsecond 0
Isoformat(dt) ==
    Pad2(dt.year \div 100) \o Pad2(dt.year % 100) \o <<"-">> \o Pad2(dt.month)
      \o <<"-">> \o Pad2(dt.day) \o <<"T">> \o Pad2(dt.hour) \o <<":">>
      \o Pad2(dt.minute) \o <<":", "0", "0">>

DataStr(line) == Slice(line, DateStart, MatriculaStart)

Timestamp(line) ==
    IF ~HasTime(line) THEN NoneValue
    ELSE LET dt == Strptime(DataStr(line) \o HorarioStr(line))
         IN  IF dt.ok THEN Isoformat(dt) \o <<"Z">> ELSE NoneValue

\* the record appended for an admitted line
ExtractRecord(line) ==
    [timestamp     |-> Timestamp(line),
     matricula     |-> Matricula(line),
     tipo_aeronave |-> TipoAeronave(line),
     destino       |-> Destino(line),
     regra_voo     |-> RegraVoo(line),
     pista         |-> Pista(line),
     responsavel   |-> Responsavel(line)]

PrependRecord(recs, rec) == <<rec>> \o recs

AppendRecord(recs, rec) == Append(recs, rec)

(***************************************************************************)
(* Input files                                                             *)
(*                                                                         *)
(* A line of the fixed-column layout is a 9-character head, the date at    *)
(* [9,15), the registration at [15,22), the type at [22,27), a body of     *)
(* tokens and a tail that ends in the operator.  With the 23-character     *)
(* tail an empty body gives a trimmed length of exactly 50.                *)
(***************************************************************************)
MaxBody == 3

MaxLines == 3

Blanks(n) == [i \in 1..n |-> " "]

Heads == {<<"X", "X", "X", "X", "X", "X", "X", "X", "X">>, <<"S", "B", "I", "Z", "A", "I", "Z", "0", "X">>}

Dates == {<<"1", "5", "0", "6", "2", "4">>, <<" ", "5", "0", "6", "2", "4">>, <<"A", "5", "0", "6", "2", "4">>, <<"3", "1", "0", "2", "2", "4">>}

RegTypes == {<<"P", "T", "A", "B", "C", " ", " ", "C", "1", "7", "2", " ">>, Blanks(12)}

BodyTokens == {<<"S", "P", " ">>, <<"1", "3", "3", "0">>, VV, IV, <<"0", "7">>, <<"2", "5", "7", "5">>}

Tails == {Blanks(20) \o <<"O", "P", "R">>, <<" ", "O", "P", "R">>}

RECURSIVE Concat(_)
Concat(ss) == IF ss = <<>> THEN <<>> ELSE Head(ss) \o Concat(Tail(ss))

Bodies == UNION {{Concat(b) : b \in [1..n -> BodyTokens]} : n \in 0..MaxBody}

LayoutLines ==
    {h \o d \o rt \o b \o t : h \in Heads, d \in Dates, rt \in RegTypes, b \in Bodies, t \in Tails}

\* the lines of the multi-line files: two admitted lines with different
\* operators, a padded short line, a long sentinel line and the empty line
FileLines ==
    {<<"X", "X", "X", "X", "X", "X", "X", "X", "X", "1", "5", "0", "6", "2", "4", "P", "T", "A", "B", "C", " ", " ", "C", "1", "7", "2", " ", "S", "B", "S", "P", " ", " ", "1", "3", "3", "0", "V", "V", "0", "7", " ", " ", " ", " ", " ", " ", " ", " ", " ", " ", " ", " ", " ", " ", " ", "O", "P", "A">>,
     <<"X", "X", "X", "X", "X", "X", "X", "X", "X", "1", "5", "0", "6", "2", "4", "P", "T", "X", "Y", "Z", " ", " ", "P", "A", "2", "8", " ", "S", "B", "R", "J", " ", " ", "1", "2", "0", "0", " ", "0", "7", " ", " ", " ", " ", " ", " ", " ", " ", " ", " ", " ", " ", " ", " ", " ", "O", "P", "B", " ", " ">>,
     Blanks(30) \o <<"S", "H", "O", "R", "T">> \o Blanks(30),
     Sentinel \o Blanks(50) \o <<"E", "N", "D">>,
     <<>>}

RECURSIVE Join(_)
Join(ls) ==
    IF Len(ls) = 0 THEN <<>>
    ELSE IF Len(ls) = 1 THEN ls[1]
    ELSE ls[1] \o <<NL>> \o Join(Tail(ls))

Files ==
    LayoutLines \cup UNION {{Join(f) : f \in [1..n -> FileLines]} : n \in 0..MaxLines}

(***************************************************************************)
(* upload_file                                                             *)
(***************************************************************************)
NoResponse == [status |-> 0, body |-> "none"]

Init ==
    /\ pc = "idle"
    /\ content = <<>>
    /\ lines = <<>>
    /\ idx = 1
    /\ records = <<>>
    /\ response = NoResponse
    /\ uploads = <<>>
    /\ movements = <<>>
    /\ blobs = <<>>

Reject(status, body) ==
    /\ pc = "idle"
    /\ pc' = "rejected"
    /\ response' = [status |-> status, body |-> body]
    /\ UNCHANGED <<content, lines, idx, records, uploads, movements, blobs>>

\* no bearer token in the Authorization header
RejectNoToken == Reject(401, "token_missing")

\* verify_id_token returned None
RejectBadToken == Reject(401, "token_invalid")

\* 'dataFile' is not in request.files
RejectNoFile == Reject(400, "no_file")

\* file.filename == ''
RejectNoFilename == Reject(400, "bad_filename")

\* the request passed the checks: read and decode the file, enter parse_data_file
BeginParse ==
    /\ pc = "idle"
    /\ \E f \in Files :
         /\ content' = f
         /\ lines' = Split(f)
    /\ idx' = 1
    /\ records' = <<>>
    /\ pc' = "loop"
    /\ UNCHANGED <<response, uploads, movements, blobs>>

\* one iteration of the loop over lines, on a line that is skipped
SkipStep ==
    /\ pc = "loop"
    /\ idx <= Len(lines)
    /\ SkipLine(lines[idx])
    /\ idx' = idx + 1
    /\ UNCHANGED <<pc, content, lines, records, response, uploads, movements, blobs>>

\* one iteration of the loop over lines, on an admitted line.  The try block
\* works on a str with slices, strip, re and a strptime whose ValueError is
\* caught inside, so nothing reaches the outer except, which would append
\* the same record.
AdmitStep ==
    /\ pc = "loop"
    /\ idx <= Len(lines)
    /\ ~SkipLine(lines[idx])
    /\ records' = AppendRecord(records, ExtractRecord(lines[idx]))
    /\ idx' = idx + 1
    /\ UNCHANGED <<pc, content, lines, response, uploads, movements, blobs>>

\* return records
ReturnRecords ==
    /\ pc = "loop"
    /\ idx > Len(lines)
    /\ pc' = "parsed"
    /\ UNCHANGED <<content, lines, idx, records, response, uploads, movements, blobs>>

NoRecordsNever(recs) == FALSE

\* not records
NoRecords(recs) == recs = <<>>

RespondNoRecords ==
    /\ pc = "parsed"
    /\ NoRecords(records)
    /\ pc' = "responded"
    /\ response' = [status |-> 400, body |-> "no_valid_records"]
    /\ UNCHANGED <<content, lines, idx, records, uploads, movements, blobs>>

UploadDoc(status) == [processedRecords |-> Len(records), status |-> status]

\* the batch is committed after the raw file is uploaded; the keys ownerUid,
\* uploadId and processedAt added to each stored record are left out
StoreCommitted ==
    /\ pc = "parsed"
    /\ ~NoRecords(records)
    /\ blobs' = Append(blobs, content)
    /\ uploads' = Append(uploads, UploadDoc("completed"))
    /\ movements' = movements \o records
    /\ pc' = "responded"
    /\ response' = [status |-> 200, body |-> "saved"]
    /\ UNCHANGED <<content, lines, idx, records>>

\* the upload of the raw file raises: nothing is written
StoreBlobFailed ==
    /\ pc = "parsed"
    /\ ~NoRecords(records)
    /\ pc' = "responded"
    /\ response' = [status |-> 500, body |-> "internal_error"]
    /\ UNCHANGED <<content, lines, idx, records, uploads, movements, blobs>>

\* batch.commit() raises after the raw file was uploaded
StoreCommitFailed ==
    /\ pc = "parsed"
    /\ ~NoRecords(records)
    /\ blobs' = Append(blobs, content)
    /\ pc' = "responded"
    /\ response' = [status |-> 500, body |-> "internal_error"]
    /\ UNCHANGED <<content, lines, idx, records, uploads, movements>>

Next ==
    \/ RejectNoToken
    \/ RejectBadToken
    \/ RejectNoFile
    \/ RejectNoFilename
    \/ BeginParse
    \/ SkipStep
    \/ AdmitStep
    \/ ReturnRecords
    \/ RespondNoRecords
    \/ StoreCommitted
    \/ StoreBlobFailed
    \/ StoreCommitFailed

Spec == Init /\ [][Next]_vars

(***************************************************************************)
(* Vocabulary of the properties                                            *)
(***************************************************************************)
\* the lines the loop has already passed
Processed == SubSeq(lines, 1, idx - 1)

IsSkipped(line) == Len(Strip(line)) <= 50 \/ StartsWith(line, Sentinel)

IsAdmitted(line) == Len(Strip(line)) > 50 /\ ~StartsWith(line, Sentinel)

AdmittedLines == SelectSeq(Processed, IsAdmitted)

\* the records that have a source line, by position among the admitted lines
Paired == DOMAIN records \cap DOMAIN AdmittedLines

Contains(line, tok) == \E i \in 1..(Len(line) - 1) : SubSeq(line, i, i + 1) = tok

\* tok is the token at the leftmost position where IV or VV occurs
LeftmostIs(line, tok) ==
    \E i \in 1..(Len(line) - 1) :
        /\ SubSeq(line, i, i + 1) = tok
        /\ \A j \in 1..(i - 1) : SubSeq(line, j, j + 1) \notin {IV, VV}

OrNA(s) == IF s = <<>> THEN NA ELSE s

\* 1-based starts of the maximal digit runs of s whose length is exactly n
ExactRuns(s, n) ==
    {i \in 1..(Len(s) - n + 1) :
        /\ \A j \in i..(i + n - 1) : IsDigit(s[j])
        /\ (i = 1 \/ ~IsDigit(s[i - 1]))
        /\ (i + n > Len(s) \/ ~IsDigit(s[i + n]))}

TwoDigits(s) == Len(s) = 2 /\ IsDigit(s[1]) /\ IsDigit(s[2])

\* ten digits DDMMYYHHMM that name an existing day and a time of day
ValidTen(t) ==
    /\ Len(t) = 10
    /\ \A i \in 1..10 : IsDigit(t[i])
    /\ LET dd == 10 * DigitVal(t[1]) + DigitVal(t[2])
           mm == 10 * DigitVal(t[3]) + DigitVal(t[4])
           yy == 10 * DigitVal(t[5]) + DigitVal(t[6])
           hh == 10 * DigitVal(t[7]) + DigitVal(t[8])
           mi == 10 * DigitVal(t[9]) + DigitVal(t[10])
       IN  /\ mm \in 1..12
           /\ dd \in 1..DaysInMonth(FullYear(yy), mm)
           /\ hh \in 0..23
           /\ mi \in 0..59

\* the instant the ten digits name, written YYYY-MM-DDTHH:MM:00Z
InstantText(t) ==
    (IF 10 * DigitVal(t[5]) + DigitVal(t[6]) <= 68 THEN <<"2", "0">> ELSE <<"1", "9">>)
      \o <<t[5], t[6], "-", t[3], t[4], "-", t[1], t[2], "T",
           t[7], t[8], ":", t[9], t[10], ":", "0", "0", "Z">>

WellFormedInstant(ts) ==
    /\ Len(ts) = 20
    /\ ts[5] = "-" /\ ts[8] = "-" /\ ts[11] = "T" /\ ts[14] = ":" /\ ts[17] = ":"
    /\ ts[20] = "Z"
    /\ \A i \in {1, 2, 3, 4, 6, 7, 9, 10, 12, 13, 15, 16, 18, 19} : IsDigit(ts[i])
    /\ ValidTen(<<ts[9], ts[10], ts[6], ts[7], ts[3], ts[4], ts[12], ts[13], ts[15], ts[16]>>)

\* the line with the spec's example date 150624 at [9,15)
WithValidDate(line) ==
    Slice(line, 0, DateStart) \o <<"1", "5", "0", "6", "2", "4">>
      \o SliceFrom(line, MatriculaStart)

(***************************************************************************)
(* Properties                                                              *)
(***************************************************************************)
\* C1: the records are exactly the extractions of the admitted lines passed
\* so far, one per admitted line and in input order.
Thm_C1_OneRecordPerAdmittedLine ==
    /\ Len(records) = Len(AdmittedLines)
    /\ \A k \in Paired : records[k] = ExtractRecord(AdmittedLines[k])

Wit_C1_TwoRecordsAroundSkippedLine ==
    /\ pc = "parsed"
    /\ Len(lines) = 3
    /\ IsAdmitted(lines[1]) /\ IsSkipped(lines[2]) /\ IsAdmitted(lines[3])
    /\ Len(records) = 2
    /\ records[1].responsavel # records[2].responsavel

\* C2: a loop iteration on a line whose trimmed length is <= 50 or that
\* starts with SBIZAIZ0 leaves the records unchanged.
Thm_C2_SkippedLineAddsNoRecord ==
    [][(pc = "loop" /\ idx <= Len(lines) /\ IsSkipped(lines[idx])) => records' = records]_vars

Wit_C2_ShortAndSentinelLinesPassed ==
    /\ pc = "parsed"
    /\ \E i \in DOMAIN lines : StartsWith(lines[i], Sentinel) /\ Len(Strip(lines[i])) > 50
    /\ \E i \in DOMAIN lines : Len(lines[i]) > 50 /\ Len(Strip(lines[i])) <= 50
    /\ \E i \in DOMAIN lines : IsAdmitted(lines[i])
    /\ Len(records) = 1

\* C3: the record of an admitted line with neither IV nor VV has flight
\* rule N/A, empty runway, destination N/A and no timestamp.
Thm_C3_NoAnchorKeepsDefaults ==
    \A k \in Paired :
        (~Contains(AdmittedLines[k], IV) /\ ~Contains(AdmittedLines[k], VV)) =>
            /\ records[k].regra_voo = NA
            /\ records[k].pista = <<>>
            /\ records[k].destino = NA
            /\ records[k].timestamp = NoneValue

Wit_C3_NoAnchorLineWithDigits ==
    \E k \in Paired :
        /\ ~Contains(AdmittedLines[k], IV) /\ ~Contains(AdmittedLines[k], VV)
        /\ ExactRuns(SliceFrom(AdmittedLines[k], DestinoStart), 4) # {}
        /\ ExactRuns(SliceFrom(AdmittedLines[k], DestinoStart), 2) # {}
        /\ ValidTen(DataStr(AdmittedLines[k]) \o <<"1", "2", "0", "0">>)
        /\ records[k].pista = <<>>

\* C4 as stated: IV anywhere in the line gives IFR, VV anywhere gives VFR,
\* and the flight rule is one of IFR, VFR, N/A.
Orig_C4_AnyOccurrenceDecides ==
    \A k \in Paired :
        /\ Contains(AdmittedLines[k], IV) => records[k].regra_voo = IFR
        /\ Contains(AdmittedLines[k], VV) => records[k].regra_voo = VFR
        /\ records[k].regra_voo \in {IFR, VFR, NA}

\* C4 amended: the leftmost occurrence of IV or VV decides: IFR when it is
\* IV, VFR when it is VV; the flight rule is one of IFR, VFR, N/A.
Thm_C4_LeftmostTokenDecides ==
    \A k \in Paired :
        /\ LeftmostIs(AdmittedLines[k], IV) => records[k].regra_voo = IFR
        /\ LeftmostIs(AdmittedLines[k], VV) => records[k].regra_voo = VFR
        /\ records[k].regra_voo \in {IFR, VFR, NA}

Wit_C4_BothTokensLeftmostWins ==
    \E k \in Paired :
        /\ Contains(AdmittedLines[k], IV)
        /\ LeftmostIs(AdmittedLines[k], VV)
        /\ records[k].regra_voo = VFR

\* C5 as stated: the timestamp is absent or a well-formed UTC instant; it is
\* present exactly when the line has an anchor and a time token and the date
\* field followed by the token is ten digits naming a valid day, month,
\* year, hour and minute, and then it is that instant.
Orig_C5_TimestampIffValidDigits ==
    \A k \in Paired :
        LET line == AdmittedLines[k]
            ts   == records[k].timestamp
            ok   == /\ RuleIndex(line) >= 0
                    /\ HasTime(line)
                    /\ ValidTen(DataStr(line) \o HorarioStr(line))
        IN  /\ ts = NoneValue \/ WellFormedInstant(ts)
            /\ (ts # NoneValue) <=> ok
            /\ ok => ts = InstantText(DataStr(line) \o HorarioStr(line))

\* C6 as stated: registration and aircraft type are the trimmed slices
\* [15,22) and [22,27), and N/A when the slice is blank.
Orig_C6_BlankSliceIsNA ==
    \A k \in Paired :
        /\ records[k].matricula = OrNA(Strip(Slice(AdmittedLines[k], 15, 22)))
        /\ records[k].tipo_aeronave = OrNA(Strip(Slice(AdmittedLines[k], 22, 27)))

\* C7: when the handler parsed a file that is empty or has only short or
\* sentinel lines, the parser returned no record, the response is the
\* "no valid records" failure and nothing was stored.
NothingAdmitted ==
    content = <<>> \/ \A i \in DOMAIN Split(content) : IsSkipped(Split(content)[i])

Thm_C7_NoValidRecordsReported ==
    (pc \in {"parsed", "responded"} /\ NothingAdmitted) =>
        /\ records = <<>>
        /\ pc = "responded" =>
             /\ response = [status |-> 400, body |-> "no_valid_records"]
             /\ uploads = <<>> /\ movements = <<>> /\ blobs = <<>>

Wit_C7_OnlySkippedLinesRejected ==
    /\ pc = "responded"
    /\ Len(lines) >= 2
    /\ \E i \in DOMAIN lines : Len(lines[i]) > 50
    /\ NothingAdmitted
    /\ response.status = 400

\* C8 as stated: with an anchor, the time token is the last run of exactly
\* four digits before the anchor and the destination is the trimmed text
\* from offset 27 to the last position of that token before the anchor, or
\* N/A when empty; with no such run the destination is N/A and the
\* timestamp absent.
Orig_C8_LastRunOfExactlyFourDigits ==
    \A k \in Paired :
        LET line   == AdmittedLines[k]
            before == Slice(line, 0, RuleIndex(line))
            runs   == ExactRuns(before, 4)
            token  == SubSeq(before, SetMax(runs), SetMax(runs) + 3)
        IN  RuleIndex(line) >= 0 =>
              IF runs = {}
              THEN records[k].destino = NA /\ records[k].timestamp = NoneValue
              ELSE records[k].destino =
                     OrNA(Strip(Slice(line, 27, RFind(before, token))))

\* C9 as stated: with an anchor at p, the runway is the first run of exactly
\* two digits from p+2 onward, empty when there is none; every runway is
\* empty or two digits.
Orig_C9_FirstRunOfExactlyTwoDigits ==
    \A k \in Paired :
        LET line  == AdmittedLines[k]
            after == SliceFrom(line, RuleIndex(line) + 2)
            runs  == ExactRuns(after, 2)
        IN  /\ records[k].pista = <<>> \/ TwoDigits(records[k].pista)
            /\ RuleIndex(line) >= 0 =>
                 records[k].pista =
                   (IF runs = {} THEN <<>> ELSE SubSeq(after, SetMin(runs), SetMin(runs) + 1))

\* C10 as stated: when [9,15) has a non-digit, the timestamp is absent and
\* every other field is what the same line with a valid date would give.
Orig_C10_NonNumericDateNoTimestamp ==
    \A k \in Paired :
        LET line  == AdmittedLines[k]
            other == ExtractRecord(WithValidDate(line))
        IN  (\E i \in (DateStart + 1)..MatriculaStart : ~IsDigit(line[i])) =>
              /\ records[k].timestamp = NoneValue
              /\ records[k].responsavel = other.responsavel
              /\ records[k].matricula = other.matricula
              /\ records[k].tipo_aeronave = other.tipo_aeronave
              /\ records[k].regra_voo = other.regra_voo
              /\ records[k].pista = other.pista
              /\ records[k].destino = other.destino

====
